---- MODULE Spec2Model ----
(***************************************************************************)
(* Model of pkg/adapter/datasource.go: Datasource.GetPage, parseCursor and *)
(* ParseResponse.  One GetPage invocation is a small state machine; the    *)
(* transport (http.Client.Do), the caller's context and the datasource's   *)
(* answer are the environment.                                             *)
(*                                                                         *)
(* Strings that the code parses or formats (cursors) are sequences of      *)
(* one-character strings; the empty Go string "" is the empty sequence.    *)
(* int64 is modelled with IntBits bits, two's complement.                  *)
(***************************************************************************)
EXTENDS Integers, Sequences, FiniteSets

\* ---------------------------------------------------------------- bounds
\* Width of the model's "int64" (two's complement).
IntBits == 4
\* Longest request cursor the caller supplies.
MaxCursorLen == 3
\* Largest dataset a paging session walks.
MaxDataset == 5

\* ------------------------------------------------------------- constants
\* http.StatusOK
StatusOK == 200

TwoTo(n) == 2 ^ n
MaxInt64 == TwoTo(IntBits - 1) - 1
MinInt64 == -TwoTo(IntBits - 1)
MaxUint64 == TwoTo(IntBits) - 1

\* Two's-complement wrap of a mathematical integer into the int64 range:
\* what Go's int64 addition yields.
WrapInt64(x) == ((x + TwoTo(IntBits - 1)) % TwoTo(IntBits)) - TwoTo(IntBits - 1)

\* ------------------------------------------------------ strconv (digits)
DigitChars == <<"0", "1", "2", "3", "4", "5", "6", "7", "8", "9">>

IsDigit(c) == \E i \in 1..10 : DigitChars[i] = c

DigitVal(c) == (CHOOSE i \in 1..10 : DigitChars[i] = c) - 1

\* strconv.ParseUint(s, 10, 64): scans left to right; the first non-digit is
\* a syntax error, a value beyond the unsigned range a range error (reported
\* with the maximum value).
RECURSIVE ParseUintFrom(_, _, _)
ParseUintFrom(s, i, n) ==
    IF i > Len(s) THEN [val |-> n, err |-> "nil"]
    ELSE IF ~IsDigit(s[i]) THEN [val |-> 0, err |-> "syntax"]
    ELSE IF n >= (MaxUint64 \div 10) + 1 THEN [val |-> MaxUint64, err |-> "range"]
    ELSE IF n * 10 + DigitVal(s[i]) > MaxUint64 THEN [val |-> MaxUint64, err |-> "range"]
    ELSE ParseUintFrom(s, i + 1, n * 10 + DigitVal(s[i]))

ParseUint(s) ==
    IF s = <<>> THEN [val |-> 0, err |-> "syntax"]
    ELSE ParseUintFrom(s, 1, 0)

\* strconv.ParseInt(s, 10, 64): optional sign, then ParseUint, then the
\* signed range check.
ParseInt(s) ==
    IF s = <<>> THEN [val |-> 0, err |-> "syntax"]
    ELSE LET neg == s[1] = "-"
             s0 == IF s[1] = "+" \/ s[1] = "-" THEN Tail(s) ELSE s
             u == ParseUint(s0)
             cutoff == TwoTo(IntBits - 1)
         IN  IF u.err = "syntax" THEN [val |-> 0, err |-> "syntax"]
             ELSE IF ~neg /\ u.val >= cutoff THEN [val |-> cutoff - 1, err |-> "range"]
             ELSE IF neg /\ u.val > cutoff THEN [val |-> -cutoff, err |-> "range"]
             ELSE [val |-> IF neg THEN -u.val ELSE u.val, err |-> "nil"]

\* Decimal digits of a non-negative integer, no leading zeros.
RECURSIVE FormatUint(_)
FormatUint(u) ==
    IF u < 10 THEN <<DigitChars[u + 1]>>
    ELSE FormatUint(u \div 10) \o <<DigitChars[(u % 10) + 1]>>

\* strconv.FormatInt(i, 10)
FormatInt(i) == IF i < 0 THEN <<"-">> \o FormatUint(-i) ELSE FormatUint(i)

\* ---------------------------------------------------------- framework.Error
NoError == [nil |-> TRUE]

FrameworkError(code, message) == [nil |-> FALSE, Code |-> code, Message |-> message]

\* --------------------------------------------------------------- parseCursor
parseCursor_Lenient(cursor) ==
    IF cursor = <<>> THEN [offset |-> 0, err |-> NoError]
    ELSE LET p == ParseInt(cursor)
         IN  IF p.err # "nil" THEN [offset |-> 0, err |-> NoError]
             ELSE [offset |-> p.val, err |-> NoError]

parseCursor_EmptyFails(cursor) ==
    LET p == ParseInt(cursor)
    IN  IF p.err # "nil"
        THEN [offset |-> 0,
              err |-> FrameworkError("InvalidPageRequestConfig",
                                     <<"Request cursor conversion to int64 failed.">>)]
        ELSE [offset |-> p.val, err |-> NoError]

parseCursor(cursor) ==
    IF cursor = <<>> THEN [offset |-> 0, err |-> NoError]
    ELSE LET p == ParseInt(cursor)
         IN  IF p.err # "nil"
             THEN [offset |-> 0,
                   err |-> FrameworkError("InvalidPageRequestConfig",
                                          <<"Request cursor conversion to int64 failed.">>)]
             ELSE [offset |-> p.val, err |-> NoError]

\* ------------------------------------------------ the datasource's bodies
\* A response body, by what encoding/json makes of it.  kind is the JSON
\* value at the top level ("malformed": not JSON, "empty": zero bytes).  An
\* object carries the four fields of DatasourceResponse; each is absent or
\* present with a value of the right type, except the one named by bad,
\* whose value has the wrong JSON type (or, for limit and offset, is a
\* number that does not fit int64).
Absent == [present |-> FALSE]

Present(v) == [present |-> TRUE, v |-> v]

Team1 == [id |-> "1"]
Team2 == [id |-> "2"]

TeamsFields == {Absent, Present(<<>>), Present(<<Team1, Team2>>)}

MoreFields == {Absent, Present(TRUE), Present(FALSE)}

EnvInts == {MinInt64, -1, 0, 2, MaxInt64}

IntFields == {Absent} \cup {Present(n) : n \in EnvInts}

NonObjectKinds == {"malformed", "empty", "null", "array", "number", "string", "bool"}

BadFields == {"teams", "more", "limit", "offset"}

Body(kind, teams, more, limit, offset, bad) ==
    [kind |-> kind, teams |-> teams, more |-> more, limit |-> limit,
     offset |-> offset, bad |-> bad]

Bodies ==
    {Body(k, Absent, Absent, Absent, Absent, "none") : k \in NonObjectKinds}
    \cup {Body("object", Absent, Absent, Absent, Absent, f) : f \in BadFields}
    \cup {Body("object", t, m, l, o, "none") :
            t \in TeamsFields, m \in MoreFields, l \in IntFields, o \in IntFields}

\* ----------------------------------------------------------- json.Unmarshal
\* []map[string]any: nil unless the field is present.
NilObjects == [isNil |-> TRUE, items |-> <<>>]

Objects(items) == [isNil |-> FALSE, items |-> items]

\* The *DatasourceResponse that Unmarshal leaves in data.
NilData == [isNil |-> TRUE]

\* json.Unmarshal(body, &data) with data a *DatasourceResponse.  JSON null
\* sets the pointer to nil and is no error; an object allocates the struct
\* and fills the fields present, the others keep their zero value; every
\* other value is an error, as is a field of the wrong type.
Unmarshal(body) ==
    IF body.kind = "malformed"
    THEN [err |-> "invalid character", data |-> NilData]
    ELSE IF body.kind = "empty"
    THEN [err |-> "unexpected end of JSON input", data |-> NilData]
    ELSE IF body.kind = "null"
    THEN [err |-> "nil", data |-> NilData]
    ELSE IF body.kind # "object"
    THEN [err |-> "cannot unmarshal into Go value", data |-> NilData]
    ELSE IF body.bad # "none"
    THEN [err |-> "cannot unmarshal into Go struct field", data |-> NilData]
    ELSE [err |-> "nil",
          data |-> [isNil |-> FALSE,
                    Objects |-> IF body.teams.present THEN Objects(body.teams.v)
                                ELSE NilObjects,
                    More |-> IF body.more.present THEN body.more.v ELSE FALSE,
                    Limit |-> IF body.limit.present THEN body.limit.v ELSE 0,
                    Offset |-> IF body.offset.present THEN body.offset.v ELSE 0]]

\* ------------------------------------------------------------ ParseResponse
\* nextCursor as lines 197-200 compute it from the decoded envelope.
NextCursor_Always(data) == FormatInt(WrapInt64(data.Offset + data.Limit))

NextCursor_OffsetOnly(data) ==
    IF data.More THEN FormatInt(data.Offset) ELSE <<>>

NextCursor(data) ==
    IF data.More THEN FormatInt(WrapInt64(data.Offset + data.Limit)) ELSE <<>>

\* ParseResponse(body).  panicked: the function did not return (a nil
\* pointer dereference at data.More).
ParseResponse(body) ==
    LET u == Unmarshal(body)
    IN  IF u.err # "nil"
        THEN [panicked |-> FALSE, objects |-> NilObjects, nextCursor |-> <<>>,
              err |-> FrameworkError("Internal",
                         <<"Failed to unmarshal the datasource response: ", u.err, ".">>)]
        ELSE IF u.data.isNil
        THEN [panicked |-> TRUE, objects |-> NilObjects, nextCursor |-> <<>>,
              err |-> NoError]
        ELSE [panicked |-> FALSE, objects |-> u.data.Objects,
              nextCursor |-> NextCursor(u.data), err |-> NoError]

\* ------------------------------------------------------- requests, responses
\* The characters request cursors are drawn from: digits on both sides of
\* the int64 boundary, the two signs and a non-digit.
CursorChars == {"0", "7", "8", "-", "+", "a"}

SeqsUpTo(S, n) == UNION {[1..k -> S] : k \in 0..n}

Cursors == SeqsUpTo(CursorChars, MaxCursorLen)

\* ":" makes the formatted URL ":/teams?offset=..", which net/url rejects
\* (missing protocol scheme), so http.NewRequestWithContext fails.
BaseURLs == {"https://api.pagerduty.com", ":"}

URLParses(baseURL) == baseURL # ":"

PageSizes == {1, 10}

\* Request (the fields GetPage reads).
Requests ==
    [BaseURL : BaseURLs, EntityExternalID : {"teams"}, PageSize : PageSizes,
     Cursor : Cursors, HTTPAuthorization : {"Token token=k1", "Bearer k2"}]

NoRequest ==
    [BaseURL |-> "", EntityExternalID |-> "", PageSize |-> 0, Cursor |-> <<>>,
     HTTPAuthorization |-> ""]

\* The *http.Request handed to the transport.
NoHTTPRequest == [nil |-> TRUE]

\* The *http.Response the transport returns: status and headers (the body is
\* a stream, read later).
NoHTTPResponse == [nil |-> TRUE]

NoHeaders == [k \in {} |-> ""]

Headers == {NoHeaders, [k \in {"Retry-After"} |-> "30"]}

\* http.Header.Get: the value, or "" when the header is absent.
HeaderGet(h, k) == IF k \in DOMAIN h THEN h[k] ELSE ""

Statuses == {200, 204, 429, 500}

UnreadBody == Body("unread", Absent, Absent, Absent, Absent, "none")

\* *Response
NilResponse == [nil |-> TRUE]

NewResponse_NoRetryAfter(r) ==
    [nil |-> FALSE, StatusCode |-> r.StatusCode, RetryAfterHeader |-> "",
     Objects |-> NilObjects, NextCursor |-> <<>>]

\* &Response{StatusCode: ..., RetryAfterHeader: ...}
NewResponse(r) ==
    [nil |-> FALSE, StatusCode |-> r.StatusCode,
     RetryAfterHeader |-> HeaderGet(r.Header, "Retry-After"),
     Objects |-> NilObjects, NextCursor |-> <<>>]

NoReturn == [resp |-> NilResponse, err |-> NoError]

\* ------------------------------------------------------------------- state
VARIABLES
    pc,               \* where the GetPage invocation stands
    request,          \* the *Request of the invocation
    offset,           \* the offset parseCursor resolved
    outbound,         \* the HTTP request built for the transport
    calls,            \* calls of Client.Do in this invocation
    callerCancelled,  \* the caller's ctx is cancelled
    deadlineFired,    \* the 5 second timer of apiCtx has fired
    res,              \* what Client.Do returned
    bodyState,        \* res.Body: "none", "open" or "closed"
    body,             \* the bytes io.ReadAll returned
    response,         \* the *Response under construction
    ret,              \* what GetPage returned
    shared,           \* the Datasource (d), which every invocation receives
    parked,           \* the locals of a second invocation that is not running
    session           \* the caller's paging session

\* The locals of the running invocation.
locals ==
    <<pc, request, offset, outbound, calls, callerCancelled, deadlineFired,
      res, bodyState, body, response, ret>>

\* What no statement of GetPage touches.
aux == <<shared, parked, session>>

vars ==
    <<pc, request, offset, outbound, calls, callerCancelled, deadlineFired,
      res, bodyState, body, response, ret, shared, parked, session>>

\* &Datasource{Client: &http.Client{..}}
NewClient == [Client |-> "http.Client"]

\* The locals of an invocation that has not started.
FreshLocals ==
    [pc |-> "idle", request |-> NoRequest, offset |-> 0, outbound |-> NoHTTPRequest,
     calls |-> 0, callerCancelled |-> FALSE, deadlineFired |-> FALSE,
     res |-> NoHTTPResponse, bodyState |-> "none", body |-> UnreadBody,
     response |-> NilResponse, ret |-> NoReturn]

NoSession ==
    [size |-> 0, pageSize |-> 0, cursor |-> <<>>, offsets |-> <<>>, got |-> <<>>,
     over |-> TRUE]

InitLocals ==
    /\ pc = "idle"
    /\ request = NoRequest
    /\ offset = 0
    /\ outbound = NoHTTPRequest
    /\ calls = 0
    /\ callerCancelled = FALSE
    /\ deadlineFired = FALSE
    /\ res = NoHTTPResponse
    /\ bodyState = "none"
    /\ body = UnreadBody
    /\ response = NilResponse
    /\ ret = NoReturn

Init ==
    /\ InitLocals
    /\ shared = NewClient
    /\ parked = FreshLocals
    /\ session = NoSession

\* GetPage returns (resp, err).  deferred: `defer res.Body.Close()` has been
\* executed, so the body is closed on the way out.
Return(resp, err, deferred) ==
    /\ pc' = "returned"
    /\ ret' = [resp |-> resp, err |-> err]
    /\ bodyState' = IF deferred THEN "closed" ELSE bodyState

\* The caller invokes GetPage(ctx, request) with a request of rs.
CallWith(rs) ==
    /\ pc = "idle"
    /\ \E r \in rs : request' = r
    /\ pc' = "resolve"
    /\ UNCHANGED <<offset, outbound, calls, callerCancelled, deadlineFired, res,
                   bodyState, body, response, ret>>
    /\ UNCHANGED aux

Call == CallWith(Requests)

ResolveCursor_CachedInDatasource ==
    /\ pc = "resolve"
    /\ LET c == parseCursor(request.Cursor)
       IN  IF ~c.err.nil
           THEN /\ Return(NilResponse, c.err, FALSE)
                /\ UNCHANGED <<offset, shared>>
           ELSE /\ offset' = IF "lastOffset" \in DOMAIN shared
                             THEN shared.lastOffset ELSE c.offset
                /\ shared' = [Client |-> shared.Client, lastOffset |-> c.offset]
                /\ pc' = "build"
                /\ UNCHANGED <<ret, bodyState>>
    /\ UNCHANGED <<request, outbound, calls, callerCancelled, deadlineFired, res,
                   body, response, parked, session>>

\* offset, offsetErr := parseCursor(request.Cursor)
ResolveCursor ==
    /\ UNCHANGED aux
    /\ pc = "resolve"
    /\ LET c == parseCursor(request.Cursor)
       IN  IF ~c.err.nil
           THEN /\ Return(NilResponse, c.err, FALSE)
                /\ UNCHANGED offset
           ELSE /\ offset' = c.offset
                /\ pc' = "build"
                /\ UNCHANGED <<ret, bodyState>>
    /\ UNCHANGED <<request, outbound, calls, callerCancelled, deadlineFired, res,
                   body, response>>

\* The *http.Request: method, URL and headers.
HTTPRequest_SwappedParams(req, off) ==
    [nil |-> FALSE, Method |-> "GET",
     URL |-> [base |-> req.BaseURL, path |-> req.EntityExternalID,
              offset |-> req.PageSize, limit |-> off],
     Accept |-> "application/vnd.pagerduty+json;version=2",
     Authorization |-> req.HTTPAuthorization,
     ContentType |-> "application/json"]

HTTPRequest(req, off) ==
    [nil |-> FALSE, Method |-> "GET",
     URL |-> [base |-> req.BaseURL, path |-> req.EntityExternalID,
              offset |-> off, limit |-> req.PageSize],
     Accept |-> "application/vnd.pagerduty+json;version=2",
     Authorization |-> req.HTTPAuthorization,
     ContentType |-> "application/json"]

\* url := fmt.Sprintf(..); http.NewRequestWithContext; apiCtx; headers.
BuildRequest ==
    /\ UNCHANGED aux
    /\ pc = "build"
    /\ IF ~URLParses(request.BaseURL)
       THEN /\ Return(NilResponse,
                      FrameworkError("Internal",
                                     <<"Failed to create HTTP request to datasource.">>),
                      FALSE)
            /\ UNCHANGED outbound
       ELSE /\ outbound' = HTTPRequest(request, offset)
            /\ pc' = "send"
            /\ UNCHANGED <<ret, bodyState>>
    /\ UNCHANGED <<request, offset, calls, callerCancelled, deadlineFired, res, body,
                   response>>

\* res, err := d.Client.Do(req): the call goes out.
Send ==
    /\ UNCHANGED aux
    /\ pc = "send"
    /\ calls' = calls + 1
    /\ pc' = "inflight"
    /\ UNCHANGED <<request, offset, outbound, callerCancelled, deadlineFired, res,
                   bodyState, body, response, ret>>

\* apiCtx, cancel := context.WithTimeout(ctx, 5*time.Second);
\* req = req.WithContext(apiCtx).  The context the transport watches is done
\* once the parent is cancelled or the timer fires.
ApiCtxDone_Background == deadlineFired

ApiCtxDone == callerCancelled \/ deadlineFired

\* The caller cancels ctx while the call is in flight.
CallerCancel ==
    /\ UNCHANGED aux
    /\ pc = "inflight"
    /\ ~callerCancelled
    /\ callerCancelled' = TRUE
    /\ UNCHANGED <<pc, request, offset, outbound, calls, deadlineFired, res, bodyState,
                   body, response, ret>>

\* The 5 second timer of apiCtx fires while the call is in flight.
DeadlineFire ==
    /\ UNCHANGED aux
    /\ pc = "inflight"
    /\ ~deadlineFired
    /\ deadlineFired' = TRUE
    /\ UNCHANGED <<pc, request, offset, outbound, calls, callerCancelled, res, bodyState,
                   body, response, ret>>

DoFailed_NoError == Return(NilResponse, NoError, FALSE)

DoFailed_DatasourceFailed ==
    Return(NilResponse,
           FrameworkError("DatasourceFailed", <<"Failed to send request to datasource.">>),
           FALSE)

\* Client.Do returns an error: GetPage returns Internal, no response.
DoFailed ==
    Return(NilResponse,
           FrameworkError("Internal", <<"Failed to send request to datasource.">>),
           FALSE)

\* Client.Do returns a response (status line and headers); its body is open.
RespondWith(sts, hs) ==
    /\ pc = "inflight"
    /\ ~ApiCtxDone
    /\ \E st \in sts, h \in hs :
          res' = [nil |-> FALSE, StatusCode |-> st, Header |-> h]
    /\ bodyState' = "open"
    /\ pc' = "responded"
    /\ UNCHANGED <<request, offset, outbound, calls, callerCancelled, deadlineFired,
                   body, response, ret>>
    /\ UNCHANGED aux

TransportRespond == RespondWith(Statuses, Headers)

TransportFail_Retry ==
    /\ UNCHANGED aux
    /\ pc = "inflight"
    /\ ~ApiCtxDone
    /\ calls < 3
    /\ calls' = calls + 1
    /\ UNCHANGED <<pc, request, offset, outbound, callerCancelled, deadlineFired, res,
                   bodyState, body, response, ret>>

\* Client.Do fails on its own (connection error, the client's Timeout).
TransportFail ==
    /\ UNCHANGED aux
    /\ pc = "inflight"
    /\ ~ApiCtxDone
    /\ DoFailed
    /\ UNCHANGED <<request, offset, outbound, calls, callerCancelled, deadlineFired,
                   res, body, response>>

\* Client.Do is aborted because the request's context is done.
TransportAbort ==
    /\ UNCHANGED aux
    /\ pc = "inflight"
    /\ ApiCtxDone
    /\ DoFailed
    /\ UNCHANGED <<request, offset, outbound, calls, callerCancelled, deadlineFired,
                   res, body, response>>

CheckStatus_Any2xx ==
    /\ UNCHANGED aux
    /\ pc = "responded"
    /\ response' = NewResponse(res)
    /\ IF res.StatusCode \notin 200..299
       THEN Return(response', NoError, FALSE)
       ELSE /\ pc' = "read"
            /\ UNCHANGED <<ret, bodyState>>
    /\ UNCHANGED <<request, offset, outbound, calls, callerCancelled, deadlineFired,
                   res, body>>

\* response := &Response{..}; if res.StatusCode != http.StatusOK, return it.
CheckStatus ==
    /\ UNCHANGED aux
    /\ pc = "responded"
    /\ response' = NewResponse(res)
    /\ IF res.StatusCode # StatusOK
       THEN Return(response', NoError, FALSE)
       ELSE /\ pc' = "read"
            /\ UNCHANGED <<ret, bodyState>>
    /\ UNCHANGED <<request, offset, outbound, calls, callerCancelled, deadlineFired,
                   res, body>>

\* defer res.Body.Close(); body, err := io.ReadAll(res.Body).  The read
\* fails (when the stream may fail), or yields the bytes the datasource
\* sent, one of bs.
ReadBodyWith(bs, mayFail) ==
    /\ pc = "read"
    /\ \/ /\ mayFail
          /\ Return(NilResponse,
                    FrameworkError("DatasourceFailed", <<"Failed to read response body.">>),
                    TRUE)
          /\ UNCHANGED body
       \/ /\ \E b \in bs : body' = b
          /\ pc' = "parse"
          /\ UNCHANGED <<ret, bodyState>>
    /\ UNCHANGED <<request, offset, outbound, calls, callerCancelled, deadlineFired,
                   res, response>>
    /\ UNCHANGED aux

ReadBody == ReadBodyWith(Bodies, TRUE)

\* objects, nextCursor, parseErr := ParseResponse(body), and the return.
\* A panic in ParseResponse unwinds GetPage: the deferred Close runs, nothing
\* is returned.
Parse ==
    /\ UNCHANGED aux
    /\ pc = "parse"
    /\ LET p == ParseResponse(body)
       IN  IF p.panicked
           THEN /\ pc' = "panicked"
                /\ bodyState' = "closed"
                /\ UNCHANGED <<ret, response>>
           ELSE IF ~p.err.nil
           THEN /\ Return(NilResponse, p.err, TRUE)
                /\ UNCHANGED response
           ELSE /\ response' = [response EXCEPT !.Objects = p.objects,
                                                !.NextCursor = p.nextCursor]
                /\ Return(response', NoError, TRUE)
    /\ UNCHANGED <<request, offset, outbound, calls, callerCancelled, deadlineFired,
                   res, body>>

\* The caller has taken the outcome; the invocation's locals are gone and the
\* Datasource is ready for the next GetPage.
ResetLocals ==
    /\ pc' = "idle"
    /\ request' = NoRequest
    /\ offset' = 0
    /\ outbound' = NoHTTPRequest
    /\ calls' = 0
    /\ callerCancelled' = FALSE
    /\ deadlineFired' = FALSE
    /\ res' = NoHTTPResponse
    /\ bodyState' = "none"
    /\ body' = UnreadBody
    /\ response' = NilResponse
    /\ ret' = NoReturn

Release ==
    /\ pc \in {"returned", "panicked"}
    /\ ResetLocals
    /\ UNCHANGED aux

Next ==
    \/ Call
    \/ ResolveCursor
    \/ BuildRequest
    \/ Send
    \/ CallerCancel
    \/ DeadlineFire
    \/ TransportRespond
    \/ TransportFail
    \/ TransportAbort
    \/ CheckStatus
    \/ ReadBody
    \/ Parse
    \/ Release

Spec == Init /\ [][Next]_vars

\* The steps of GetPage are ordinary code and run to completion; the runtime
\* fires the timer of apiCtx; the transport returns once its context is done.
FairSpec ==
    /\ Spec
    /\ WF_vars(ResolveCursor)
    /\ WF_vars(BuildRequest)
    /\ WF_vars(Send)
    /\ WF_vars(DeadlineFire)
    /\ WF_vars(TransportAbort)
    /\ WF_vars(CheckStatus)
    /\ WF_vars(ReadBody)
    /\ WF_vars(Parse)

\* ------------------------------------------------------- a paging session
\* The caller walks a dataset of session.size records page by page: it
\* starts from the empty cursor and feeds each returned NextCursor into its
\* next request.  The datasource holds records 1..size in a fixed order,
\* answers 200, echoes the requested offset and limit and sets "more" exactly
\* when records remain beyond offset + limit.
SessionPageSizes == {1, 2, 3}

Min(a, b) == IF a <= b THEN a ELSE b

DatasetSizes == 0..Min(MaxDataset, MaxInt64)

Record(k) == [id |-> FormatUint(k)]

PageCount(n, off, lim) == IF off < 0 \/ off >= n THEN 0 ELSE Min(lim, n - off)

DatasetPage(n, off, lim) ==
    Body("object", Present([i \in 1..PageCount(n, off, lim) |-> Record(off + i)]),
         Present(n > off + lim), Present(lim), Present(off), "none")

Sessions ==
    [size : DatasetSizes, pageSize : SessionPageSizes, cursor : {<<>>},
     offsets : {<<>>}, got : {<<>>}, over : {FALSE}]

SessionInit ==
    /\ InitLocals
    /\ shared = NewClient
    /\ parked = FreshLocals
    /\ session \in Sessions

\* The caller asks for the next page; it gives up after more pages than the
\* dataset can have.
SessionCall ==
    /\ ~session.over
    /\ Len(session.offsets) < MaxDataset + 2
    /\ CallWith({[BaseURL |-> "https://api.pagerduty.com", EntityExternalID |-> "teams",
                  PageSize |-> session.pageSize, Cursor |-> session.cursor,
                  HTTPAuthorization |-> "Token token=k1"]})

SessionRespond == RespondWith({200}, {NoHeaders})

SessionReadBody ==
    ReadBodyWith({DatasetPage(session.size, outbound.URL.offset, outbound.URL.limit)},
                 FALSE)

\* The caller takes the page: the records, and the cursor for its next call.
SessionTake ==
    /\ pc = "returned"
    /\ ~ret.resp.nil
    /\ session' = [session EXCEPT !.offsets = Append(@, outbound.URL.offset),
                                  !.got = @ \o ret.resp.Objects.items,
                                  !.cursor = ret.resp.NextCursor,
                                  !.over = (ret.resp.NextCursor = <<>>)]
    /\ ResetLocals
    /\ UNCHANGED <<shared, parked>>

SessionNext ==
    \/ SessionCall
    \/ ResolveCursor
    \/ BuildRequest
    \/ Send
    \/ SessionRespond
    \/ CheckStatus
    \/ SessionReadBody
    \/ Parse
    \/ SessionTake

\* The caller keeps paging, the datasource keeps answering and the steps of
\* GetPage run to completion.
SessionSpec ==
    /\ SessionInit
    /\ [][SessionNext]_vars
    /\ WF_vars(SessionCall)
    /\ WF_vars(ResolveCursor)
    /\ WF_vars(BuildRequest)
    /\ WF_vars(Send)
    /\ WF_vars(SessionRespond)
    /\ WF_vars(CheckStatus)
    /\ WF_vars(SessionReadBody)
    /\ WF_vars(Parse)
    /\ WF_vars(SessionTake)

\* ------------------------------------------------- concurrent invocations
\* Two GetPage invocations on the same Datasource, interleaved step by step:
\* one runs in the variables above, the other is parked; Switch hands the
\* processor to the other one.
LocalsRecord ==
    [pc |-> pc, request |-> request, offset |-> offset, outbound |-> outbound,
     calls |-> calls, callerCancelled |-> callerCancelled,
     deadlineFired |-> deadlineFired, res |-> res, bodyState |-> bodyState,
     body |-> body, response |-> response, ret |-> ret]

Switch ==
    /\ parked' = LocalsRecord
    /\ pc' = parked.pc
    /\ request' = parked.request
    /\ offset' = parked.offset
    /\ outbound' = parked.outbound
    /\ calls' = parked.calls
    /\ callerCancelled' = parked.callerCancelled
    /\ deadlineFired' = parked.deadlineFired
    /\ res' = parked.res
    /\ bodyState' = parked.bodyState
    /\ body' = parked.body
    /\ response' = parked.response
    /\ ret' = parked.ret
    /\ UNCHANGED <<shared, session>>

ConcRequests ==
    [BaseURL : {"https://api.pagerduty.com"}, EntityExternalID : {"teams"},
     PageSize : {10}, Cursor : {<<>>, <<"7">>, <<"a">>},
     HTTPAuthorization : {"Token token=k1"}]

ConcBodies ==
    {Body("object", Present(<<Team1, Team2>>), Present(TRUE), Present(2), Present(0),
          "none"),
     Body("object", Present(<<>>), Present(FALSE), Present(2), Present(2), "none"),
     Body("malformed", Absent, Absent, Absent, Absent, "none"),
     Body("null", Absent, Absent, Absent, Absent, "none")}

ConcCall == CallWith(ConcRequests)

ConcRespond == RespondWith({200, 429}, {[k \in {"Retry-After"} |-> "30"]})

ConcReadBody == ReadBodyWith(ConcBodies, TRUE)

ConcNext ==
    \/ ConcCall
    \/ ResolveCursor
    \/ BuildRequest
    \/ Send
    \/ ConcRespond
    \/ TransportFail
    \/ CheckStatus
    \/ ConcReadBody
    \/ Parse
    \/ Release
    \/ Switch

ConcSpec == Init /\ [][ConcNext]_vars

\* ================================================================ properties
\* What the properties say about cursors, stated without the parser:
\* s is [+-]?[0-9]+ and the integer it denotes fits int64.
RECURSIVE DecimalValue(_)
DecimalValue(ds) ==
    IF ds = <<>> THEN 0
    ELSE 10 * DecimalValue(SubSeq(ds, 1, Len(ds) - 1)) + DigitVal(ds[Len(ds)])

Signed(s) == s # <<>> /\ s[1] \in {"+", "-"}

Magnitude(s) == IF Signed(s) THEN Tail(s) ELSE s

IsNumeral(s) ==
    /\ Magnitude(s) # <<>>
    /\ \A i \in 1..Len(Magnitude(s)) : Magnitude(s)[i] \in {DigitChars[d] : d \in 1..10}

Denoted(s) ==
    IF s # <<>> /\ s[1] = "-" THEN -DecimalValue(Magnitude(s))
    ELSE DecimalValue(Magnitude(s))

IsInt64Numeral(s) ==
    /\ IsNumeral(s)
    /\ Denoted(s) >= MinInt64
    /\ Denoted(s) <= MaxInt64

InvalidCursor(s) == s # <<>> /\ ~IsInt64Numeral(s)

Finished == pc \in {"returned", "panicked"}

\* C1: a request whose cursor is non-empty and is no base-10 int64 numeral is
\* answered with an InvalidPageRequestConfig error and no response, and at no
\* point of the invocation is a request built or a call issued.
C1_InvalidCursorNoCall ==
    InvalidCursor(request.Cursor) =>
        /\ calls = 0
        /\ outbound = NoHTTPRequest
        /\ pc \in {"resolve", "returned"}
        /\ pc = "returned" =>
              /\ ret.resp = NilResponse
              /\ ~ret.err.nil
              /\ ret.err.Code = "InvalidPageRequestConfig"

C1_Witness ==
    /\ pc = "returned"
    /\ request.Cursor = <<"a", "7">>
    /\ ~ret.err.nil
    /\ calls = 0

\* C2: when the datasource answers with a non-success (non-2xx) status,
\* GetPage returns no error and a response with that status, nil records, an
\* empty next cursor and the Retry-After header's value ("" when absent).
C2_NonSuccessStatus ==
    (pc = "returned" /\ ~res.nil /\ res.StatusCode \notin 200..299) =>
        /\ ret.err = NoError
        /\ ret.resp =
              [nil |-> FALSE, StatusCode |-> res.StatusCode,
               RetryAfterHeader |->
                   IF "Retry-After" \in DOMAIN res.Header
                   THEN res.Header["Retry-After"] ELSE "",
               Objects |-> NilObjects, NextCursor |-> <<>>]

C2_Witness ==
    /\ pc = "returned"
    /\ ~res.nil
    /\ res.StatusCode = 429
    /\ ~ret.resp.nil
    /\ ret.resp.RetryAfterHeader = "30"

\* The body is a JSON object of the envelope shape.
Conforming(b) == b.kind = "object" /\ b.bad = "none"

HasMore(b) == b.more.present /\ b.more.v

FieldInt(f) == IF f.present THEN f.v ELSE 0

\* C3: in every response produced from a decoded envelope, the next cursor is
\* non-empty exactly when the envelope's "more" flag is true.
C3_NextCursorIffMore ==
    (pc = "returned" /\ Conforming(body)) =>
        /\ ~ret.resp.nil
        /\ ret.resp.NextCursor # <<>> <=> HasMore(body)

C3_Witness ==
    /\ pc = "returned"
    /\ body = Body("object", Present(<<Team1, Team2>>), Present(TRUE), Present(2),
                   Present(0), "none")
    /\ ~ret.resp.nil
    /\ ret.resp.NextCursor = <<"2">>

\* C4: once the transport has returned a response, the response body is
\* closed by the time GetPage is over, on every exit path.
C4_BodyReleased == (Finished /\ ~res.nil) => bodyState = "closed"

\* C5: for non-negative offset and limit with more = true, decoding the
\* returned next cursor succeeds and yields the integer offset + limit.
C5_RoundTrip ==
    (/\ pc = "returned"
     /\ Conforming(body)
     /\ HasMore(body)
     /\ FieldInt(body.offset) >= 0
     /\ FieldInt(body.limit) >= 0) =>
        /\ ~ret.resp.nil
        /\ parseCursor(ret.resp.NextCursor) =
              [offset |-> FieldInt(body.offset) + FieldInt(body.limit), err |-> NoError]

\* C6: the offset parameter of every outbound call is >= 0; a cursor that
\* denotes a negative integer never results in a call.
C6_NonNegativeOffset ==
    /\ ~outbound.nil => outbound.URL.offset >= 0
    /\ (IsNumeral(request.Cursor) /\ Denoted(request.Cursor) < 0) => calls = 0

\* C7: ParseResponse always returns: an Internal error carrying the decode
\* diagnostic, nil records and an empty cursor for a body that is no envelope
\* object, no error for every other body.
C7_ParseAlwaysReturns ==
    (Finished /\ body.kind # "unread") =>
        /\ pc = "returned"
        /\ IF Conforming(body)
           THEN ret.err = NoError
           ELSE /\ ret.resp = NilResponse
                /\ ~ret.err.nil
                /\ ret.err.Code = "Internal"
                /\ \E i \in DOMAIN ret.err.Message :
                      ret.err.Message[i] \in
                          {"invalid character", "unexpected end of JSON input",
                           "cannot unmarshal into Go value",
                           "cannot unmarshal into Go struct field"}

\* C8: an invocation issues at most one call on the transport, and exactly
\* one when the cursor decodes and the request can be constructed; no failure
\* makes it issue the call again.
C8_AtMostOneCall ==
    /\ calls <= 1
    /\ Finished =>
          (calls = 1 <=> (~InvalidCursor(request.Cursor) /\ URLParses(request.BaseURL)))

C8_Witness ==
    /\ pc = "returned"
    /\ calls = 1
    /\ ~ret.err.nil
    /\ ret.err.Code = "Internal"
    /\ ~ApiCtxDone

\* C9 as stated: a cursor that fails to parse fails with the code InvalidCursor.
C9_FailsWithInvalidCursor ==
    (pc = "returned" /\ InvalidCursor(request.Cursor)) =>
        /\ ~ret.err.nil
        /\ ret.err.Code = "InvalidCursor"

\* C9 (amended): the empty cursor decodes to offset 0 with no error, and every
\* non-empty cursor that is no base-10 int64 numeral fails with the code
\* InvalidPageRequestConfig.
C9_FailsWithInvalidPageRequestConfig ==
    /\ (pc \notin {"idle", "resolve"} /\ request.Cursor = <<>>) =>
          /\ offset = 0
          /\ ret.err.nil \/ ret.err.Code # "InvalidPageRequestConfig"
          /\ pc = "returned" => (calls = 1 \/ ~URLParses(request.BaseURL))
    /\ (pc = "returned" /\ InvalidCursor(request.Cursor)) =>
          /\ ~ret.err.nil
          /\ ret.err.Code = "InvalidPageRequestConfig"
          /\ offset = 0

C9_Witness ==
    /\ pc = "returned"
    /\ request.Cursor = <<"8">>
    /\ ~ret.err.nil
    /\ ret.err.Code = "InvalidPageRequestConfig"

\* C10: while the call is in flight, the caller's cancellation and the 5
\* second deadline each abort it: once either has happened, the call ends
\* only by GetPage returning an error and no response, and it does end; and
\* no call stays in flight forever.
C10_FirstCancellationWins ==
    /\ [][(pc = "inflight" /\ (callerCancelled \/ deadlineFired) /\ pc' # "inflight") =>
             (pc' = "returned" /\ ret'.resp = NilResponse /\ ~ret'.err.nil)]_vars
    /\ (pc = "inflight" /\ (callerCancelled \/ deadlineFired)) ~>
          (pc = "returned" /\ ret.resp = NilResponse /\ ~ret.err.nil)
    /\ (pc = "inflight") ~> (pc # "inflight")

C10_Witness ==
    /\ pc = "returned"
    /\ callerCancelled
    /\ ~deadlineFired
    /\ calls = 1
    /\ ret.resp = NilResponse
    /\ ~ret.err.nil
    /\ ret.err.Code = "Internal"

\* C11: a request-construction failure and a transport failure each return an
\* Internal error, a body-read failure after HTTP 200 a DatasourceFailed
\* error, a parse failure the very error ParseResponse returned; in each case
\* the response is nil and no later stage of GetPage has run.
C11_ErrorTaxonomy ==
    pc = "returned" =>
        /\ (~InvalidCursor(request.Cursor) /\ ~URLParses(request.BaseURL)) =>
              /\ ret.resp = NilResponse
              /\ ~ret.err.nil
              /\ ret.err.Code = "Internal"
              /\ calls = 0
              /\ res = NoHTTPResponse
        /\ (calls = 1 /\ res = NoHTTPResponse) =>
              /\ ret.resp = NilResponse
              /\ ~ret.err.nil
              /\ ret.err.Code = "Internal"
              /\ response = NilResponse
              /\ body = UnreadBody
        /\ (~res.nil /\ res.StatusCode = 200 /\ body = UnreadBody) =>
              /\ ret.resp = NilResponse
              /\ ~ret.err.nil
              /\ ret.err.Code = "DatasourceFailed"
        /\ (body # UnreadBody /\ ~Conforming(body)) =>
              /\ ret.resp = NilResponse
              /\ ~ret.err.nil
              /\ ret.err = ParseResponse(body).err

C11_Witness ==
    /\ pc = "returned"
    /\ ~res.nil
    /\ res.StatusCode = 200
    /\ body = UnreadBody
    /\ ~ret.err.nil
    /\ ret.err.Code = "DatasourceFailed"

\* C12: the request handed to the transport is a GET to baseURL/entityName
\* whose offset parameter is the integer the request's cursor denotes (0 for
\* the empty cursor), whose limit parameter is request.PageSize and whose
\* Authorization header is the request's value verbatim; it is the request
\* of the invocation's one call.
C12_OutboundRequest ==
    /\ calls >= 1 => ~outbound.nil
    /\ ~outbound.nil =>
          /\ outbound.Method = "GET"
          /\ outbound.URL.base = request.BaseURL
          /\ outbound.URL.path = request.EntityExternalID
          /\ outbound.URL.offset =
                IF request.Cursor = <<>> THEN 0 ELSE Denoted(request.Cursor)
          /\ outbound.URL.limit = request.PageSize
          /\ outbound.Authorization = request.HTTPAuthorization

C12_Witness ==
    /\ calls = 1
    /\ request.Cursor = <<>>
    /\ request.PageSize = 10
    /\ request.HTTPAuthorization = "Bearer k2"
    /\ ~outbound.nil
    /\ outbound.URL.offset = 0
    /\ outbound.URL.limit = 10

\* C13: on HTTP 200 with a decodable envelope GetPage returns no error and a
\* response with status 200, the envelope's records unchanged, and a next
\* cursor that is the decimal of envelope.offset + envelope.limit when the
\* envelope has more, the empty string otherwise.
C13_SuccessResponse ==
    (pc = "returned" /\ Conforming(body)) =>
        /\ ret.err = NoError
        /\ ~ret.resp.nil
        /\ ret.resp.StatusCode = 200
        /\ ret.resp.Objects.isNil = ~body.teams.present
        /\ body.teams.present => ret.resp.Objects.items = body.teams.v
        /\ ret.resp.NextCursor =
              IF HasMore(body)
              THEN FormatInt(FieldInt(body.offset) + FieldInt(body.limit))
              ELSE <<>>

\* C16: every non-empty next cursor handed to the caller is a valid cursor:
\* for an envelope with more = true and any int64 offset and limit, the
\* returned next cursor decodes without error to a non-negative offset.
C16_NextCursorIsValidCursor ==
    (pc = "returned" /\ Conforming(body) /\ HasMore(body)) =>
        /\ ~ret.resp.nil
        /\ ret.resp.NextCursor # <<>>
        /\ parseCursor(ret.resp.NextCursor).err = NoError
        /\ parseCursor(ret.resp.NextCursor).offset >= 0

\* C17: every return of GetPage yields exactly one of a response and an
\* error: the response is non-nil exactly when the error is nil.
C17_ResponseXorError ==
    pc = "returned" => (ret.resp = NilResponse <=> ret.err # NoError)

C17_Witness ==
    /\ pc = "returned"
    /\ calls = 1
    /\ res = NoHTTPResponse
    /\ ret.resp = NilResponse
    /\ ret.err # NoError

\* C18: the body is read and parsed exactly when the status is 200: for
\* every other status, other 2xx codes included, GetPage returns no error
\* and a response with that status, nil records and an empty next cursor,
\* and the body has not been touched; for 200 the body has been read.
C18_BodyReadIffStatusOK ==
    (Finished /\ ~res.nil) =>
        IF res.StatusCode = 200
        THEN bodyState = "closed"
        ELSE /\ pc = "returned"
             /\ body = UnreadBody
             /\ bodyState = "open"
             /\ ret.err = NoError
             /\ ~ret.resp.nil
             /\ ret.resp.StatusCode = res.StatusCode
             /\ ret.resp.Objects = NilObjects
             /\ ret.resp.NextCursor = <<>>

C18_Witness ==
    /\ pc = "returned"
    /\ ~res.nil
    /\ res.StatusCode = 204
    /\ body = UnreadBody
    /\ ret.err = NoError
    /\ ~ret.resp.nil
    /\ ret.resp.StatusCode = 204

\* C15: in a paging session the offsets requested are 0, pageSize,
\* 2*pageSize, ..; the records received so far are records 1, 2, .. in order,
\* each once; when the session is over every record has been received; and
\* the session does come to a response with an empty next cursor.
C15_SessionOrder ==
    /\ \A i \in 1..Len(session.offsets) : session.offsets[i] = (i - 1) * session.pageSize
    /\ Len(session.got) = Min(session.size, Len(session.offsets) * session.pageSize)
    /\ \A i \in 1..Len(session.got) : session.got[i] = Record(i)
    /\ session.over => Len(session.got) = session.size

C15_SessionProgress == []C15_SessionOrder /\ <>session.over

C15_Witness ==
    /\ session.over
    /\ session.size = 5
    /\ session.pageSize = 2
    /\ session.offsets = <<0, 2, 4>>
    /\ Len(session.got) = 5

\* C14: with two invocations interleaved in any way, and after any earlier
\* invocations, no invocation writes the Datasource, a step of one
\* invocation leaves the other's locals alone, and two finished invocations
\* that had the same request and got the same answer from the datasource
\* made the same call and have the same outcome.
C14_SameInputsSameOutcome ==
    (/\ Finished
     /\ parked.pc \in {"returned", "panicked"}
     /\ request = parked.request
     /\ res = parked.res
     /\ body = parked.body
     /\ (calls = 0 <=> parked.calls = 0)) =>
        LocalsRecord = parked

C14_Stateless ==
    /\ [](shared = NewClient)
    /\ []C14_SameInputsSameOutcome
    /\ [][parked' # parked =>
             (parked' = LocalsRecord /\ LocalsRecord' = parked)]_vars

C14_Witness ==
    /\ pc = "returned"
    /\ parked.pc = "returned"
    /\ request.Cursor = <<"7">>
    /\ parked.request.Cursor = <<>>
    /\ ~ret.resp.nil
    /\ ret.resp.NextCursor = <<"2">>
    /\ ~parked.ret.resp.nil
    /\ parked.ret.resp.StatusCode = 429

====
